---- MODULE Spec2Model ----
(***************************************************************************)
(* Soil-moisture SMS alert service (src/server.js).                        *)
(*                                                                         *)
(* src/server.js holds two versions of the service: lines 1-169 keep the   *)
(* farmer contact in MongoDB through mongoose (variant "mongo"), lines     *)
(* 170-282 keep it in the module-level variable farmerNumber (variant      *)
(* "memory").  The variable variant selects which of the two runs.         *)
(*                                                                         *)
(* JavaScript values are records [t, s, n]: t is the type tag, s the       *)
(* characters of a string (a sequence of one-character strings), n the     *)
(* value of a number.                                                      *)
(*                                                                         *)
(* chk is the checkSoilMoisture invocation in flight or last finished: an  *)
(* invocation writes nothing that another invocation or a handler reads,   *)
(* so one at a time shows all an invocation can do.  req are the HTTP      *)
(* requests in flight; lastReq is the request answered (or dropped) last;  *)
(* lastUpsert is the number of the upsert that completed last.             *)
(***************************************************************************)
EXTENDS Integers, Sequences, FiniteSets, TLC

VARIABLES variant, env, proc, dbConn, docs, farmerNumber, chk, req, lastReq, lastUpsert

vars == <<variant, env, proc, dbConn, docs, farmerNumber, chk, req, lastReq, lastUpsert>>

(* ------------------------------ bounds --------------------------------- *)

\* number of HTTP requests that may be in flight together
MaxReqs == 2
\* readings range over MOISTURE_THRESHOLD - ReadingSpan .. MOISTURE_THRESHOLD + ReadingSpan
ReadingSpan == 1

(* --------------------------- program constants ------------------------- *)

MOISTURE_THRESHOLD == 30
\* the {10} of the schema's match expression
PhoneDigits == 10

(* --------------------------- JavaScript values ------------------------- *)

JsUndefined == [t |-> "undefined", s |-> <<>>, n |-> 0]
JsNull == [t |-> "null", s |-> <<>>, n |-> 0]
JsString(str) == [t |-> "string", s |-> str, n |-> 0]
JsNumber(num) == [t |-> "number", s |-> <<>>, n |-> num]

\* ToBoolean, as used by `!phoneNumber`, `!farmerNumber`, `!farmer`, `a || b`
Truthy(v) ==
  CASE v.t = "undefined" -> FALSE
    [] v.t = "null" -> FALSE
    [] v.t = "string" -> v.s # <<>>
    [] v.t = "number" -> v.n # 0
    [] OTHER -> TRUE

\* v < k for a number k: undefined converts to NaN, and NaN < k is false
JsLessThan(v, k) ==
  CASE v.t = "number" -> v.n < k
    [] v.t = "null" -> 0 < k
    [] OTHER -> FALSE

DigitChars == <<"0", "1", "2", "3", "4", "5", "6", "7", "8", "9">>
Digit == {DigitChars[i] : i \in 1..Len(DigitChars)}

RECURSIVE Decimal(_)
\* String(n) for a non-negative integer, as `${soilmoisture}` renders it
Decimal(num) ==
  IF num < 10 THEN <<DigitChars[num + 1]>>
  ELSE Decimal(num \div 10) \o <<DigitChars[(num % 10) + 1]>>

\* `${v}` of a template literal
TemplateText(v) ==
  CASE v.t = "number" -> Decimal(v.n)
    [] v.t = "string" -> v.s
    [] v.t = "null" -> <<"null">>
    [] OTHER -> <<"undefined">>

StartsWith(str, prefix) ==
  /\ Len(str) >= Len(prefix)
  /\ SubSeq(str, 1, Len(prefix)) = prefix

\* one contiguous occurrence of part inside whole
Contains(whole, part) ==
  \E i \in 0..(Len(whole) - Len(part)) : SubSeq(whole, i + 1, i + Len(part)) = part

IsSpace(ch) == ch = " "

RECURSIVE TrimLeft(_)
TrimLeft(str) ==
  IF str # <<>> /\ IsSpace(Head(str)) THEN TrimLeft(Tail(str)) ELSE str

RECURSIVE TrimRight(_)
TrimRight(str) ==
  IF str # <<>> /\ IsSpace(str[Len(str)])
  THEN TrimRight(SubSeq(str, 1, Len(str) - 1))
  ELSE str

\* the schema's `trim: true` setter on name
Trim(v) == IF v.t = "string" THEN JsString(TrimRight(TrimLeft(v.s))) ELSE v

(* ------------------------------ phone numbers -------------------------- *)

CountryCode == <<"+", "9", "1">>

AllDigits(str) == \A i \in 1..Len(str) : str[i] \in Digit

\* the phone number rule with no check at all
MatchesPhoneAnything(str) == TRUE

\* /^(\+91)?[0-9]{10}$/.test(str)
MatchesPhone(str) ==
  \/ Len(str) = PhoneDigits /\ AllDigits(str)
  \/ /\ StartsWith(str, CountryCode)
     /\ Len(str) = Len(CountryCode) + PhoneDigits
     /\ AllDigits(SubSeq(str, Len(CountryCode) + 1, Len(str)))

\* if (!phoneNumber.startsWith("+91")) phoneNumber = `+91${phoneNumber}`
Normalize(str) == IF StartsWith(str, CountryCode) THEN str ELSE CountryCode \o str

\* mongoose's validators for the phoneNumber path under runValidators:
\* required, then match (match passes null and "" on to required)
ValidPhone(v) == v.t = "string" /\ v.s # <<>> /\ MatchesPhone(v.s)

(* -------------------------------- inputs -------------------------------- *)

TenA == <<"9", "8", "7", "6", "5", "4", "3", "2", "1", "0">>
TenB == <<"9", "1", "2", "3", "4", "5", "6", "7", "8", "0">>

\* values a request body may carry as phoneNumber
PhoneInputs ==
  { JsUndefined,                                   \* no phoneNumber member
    JsString(<<>>),                                \* ""
    JsNumber(12345),                               \* a JSON number, not a string
    JsString(TenA),
    JsString(TenB),
    JsString(CountryCode \o TenA),
    JsString(SubSeq(TenA, 1, PhoneDigits - 1)),    \* one digit short
    JsString(CountryCode \o CountryCode \o TenA),  \* prefix twice
    JsString([TenA EXCEPT ![5] = "x"]) }           \* not a digit

\* values a request body may carry as name
NameInputs == { JsUndefined, JsString(<<" ", "R">>) }

\* values the sensor API may return as soilmoisture
Readings ==
  { JsNumber(r) : r \in (MOISTURE_THRESHOLD - ReadingSpan)..(MOISTURE_THRESHOLD + ReadingSpan) }
    \cup { JsUndefined }

Reqs == 1..MaxReqs

(* ------------------------------ the store ------------------------------ *)

NoDoc == [name |-> JsNull, phoneNumber |-> JsNull]

\* Farmer.findOne(): the first document in natural order, or null
findOne(collection) == IF collection = <<>> THEN NoDoc ELSE collection[1]

\* Farmer.findOne().sort({ _id: -1 }): the most recently inserted document
findOneLatest(collection) ==
  IF collection = <<>> THEN NoDoc ELSE collection[Len(collection)]

\* getFarmerNumber: farmer ? farmer.phoneNumber : null
getFarmerNumber(collection) ==
  IF findOneLatest(collection) # NoDoc
  THEN findOneLatest(collection).phoneNumber
  ELSE JsNull

\* the unique index on phoneNumber: does writing phone into document k
\* (k = 0: a new document) collide with another document?
DuplicateKey(collection, k, phone) ==
  \E j \in 1..Len(collection) : j # k /\ collection[j].phoneNumber = phone

(* ------------------------------ messages ------------------------------- *)

\* The texts of the messages, each literal part one element; the emoji that
\* open the texts of lines 66 and 142 are left out.

AlertPrefix == <<"Alert! Soil moisture is too low (">>
AlertSuffix == <<"%). Please irrigate your crops immediately.">>
ManualPrefix == <<"Manual SMS Triggered! Current Soil Moisture: ">>
ManualSuffix == <<"%. Please monitor your crops accordingly.">>
ManualTest == <<"This is a manual SMS test! Please check the soil moisture and take appropriate action.">>

\* an alert text that leaves the reading out
AlertMessageFixed(v) == AlertPrefix \o AlertSuffix

\* `Alert! Soil moisture is too low (${soilmoisture}%). Please irrigate ...`
AlertMessage(v) == AlertPrefix \o TemplateText(v) \o AlertSuffix

\* `Manual SMS Triggered! Current Soil Moisture: ${soilmoisture}%. ...`
ManualMessage(v) == ManualPrefix \o TemplateText(v) \o ManualSuffix

\* client.messages.create({ body, from: twilioNumber, to })
MessagesCreate(to, body) == [to |-> to, body |-> body]

\* a threshold test that also alerts at the threshold
BelowThresholdInclusive(v) == JsLessThan(v, MOISTURE_THRESHOLD + 1)

\* soilmoisture < 30 / soilmoisture < MOISTURE_THRESHOLD
BelowThreshold(v) == JsLessThan(v, MOISTURE_THRESHOLD)

\* a contact test that lets every value through
NumberMissingNever(v) == FALSE

\* !farmerNumber
NumberMissing(v) == ~Truthy(v)

\* a document test that lets null through
FarmerMissingNever(doc) == FALSE

\* !farmer
FarmerMissing(doc) == doc = NoDoc

(* ------------------------------- tasks --------------------------------- *)

IdleCheck ==
  [pc |-> "idle", fetch |-> "none", reading |-> JsUndefined,
   lookup |-> "none", latest |-> JsUndefined, sends |-> <<>>, raised |-> FALSE]

IdleReq ==
  [kind |-> "none", pc |-> "idle", name |-> JsUndefined, raw |-> JsUndefined,
   phoneNumber |-> JsUndefined, match |-> 0, status |-> 0,
   lookup |-> "none", seen |-> "none", farmer |-> NoDoc, sends |-> <<>>]

TypeOK ==
  /\ variant \in {"mongo", "memory"}
  /\ proc \in {"loading", "up", "exited"}
  /\ dbConn \in {"none", "connecting", "connected", "failed"}
  /\ Len(docs) <= MaxReqs
  /\ chk.pc \in {"idle", "fetching", "lookup", "sending", "done"}
  /\ \A i \in Reqs : req[i].pc \in {"idle", "upsert", "write", "lookup", "fetching", "sending"}
  /\ lastReq.pc \in {"idle", "done", "threw"}

Init ==
  /\ variant \in {"mongo", "memory"}
  \* mongoUri, twilio: MONGO_URI and the Twilio credentials are set;
  \* farmerEnv: FARMER_PHONE_NUMBER
  /\ env \in [mongoUri : BOOLEAN, twilio : BOOLEAN,
              farmerEnv : {JsUndefined, JsString(CountryCode \o TenB)}]
  /\ variant = "mongo" => env.farmerEnv = JsUndefined
  /\ variant = "memory" => env.mongoUri
  /\ proc = "loading"
  /\ dbConn = "none"
  /\ docs = <<>>
  /\ farmerNumber = JsNull
  /\ chk = IdleCheck
  /\ req = [i \in Reqs |-> IdleReq]
  /\ lastReq = IdleReq
  /\ lastUpsert = JsNull

(* ------------------------------- startup ------------------------------- *)

\* twilio(accountSid, authToken) throws when a credential is missing, and
\* the exception ends the module's evaluation and the process; everything
\* else at the top level (mongoose.connect with its .catch, the first
\* checkSoilMoisture(), cron.schedule, app.listen) runs through.
Startup ==
  /\ proc = "loading"
  /\ IF ~env.twilio
     THEN /\ proc' = "exited"
          /\ UNCHANGED <<dbConn, farmerNumber, chk>>
     ELSE /\ proc' = "up"
          /\ dbConn' = IF variant = "mongo" THEN "connecting" ELSE "none"
          /\ farmerNumber' = IF variant = "memory" /\ Truthy(env.farmerEnv)
                             THEN env.farmerEnv ELSE JsNull
          /\ chk' = [IdleCheck EXCEPT !.pc = "fetching"]
  /\ UNCHANGED <<variant, env, docs, req, lastReq, lastUpsert>>

\* .then(() => console.log("MongoDB Connected"))
DbConnected ==
  /\ proc = "up"
  /\ dbConn = "connecting"
  /\ env.mongoUri
  /\ dbConn' = "connected"
  /\ UNCHANGED <<variant, env, proc, docs, farmerNumber, chk, req, lastReq, lastUpsert>>

\* .catch((err) => console.error("MongoDB Connection Error:", err))
DbConnectError ==
  /\ proc = "up"
  /\ dbConn = "connecting"
  /\ dbConn' = "failed"
  /\ UNCHANGED <<variant, env, proc, docs, farmerNumber, chk, req, lastReq, lastUpsert>>

(* --------------------------- checkSoilMoisture -------------------------- *)

\* a catch block that lets the error out of checkSoilMoisture
checkRethrow(task) == [task EXCEPT !.pc = "done", !.raised = TRUE]

\* catch (error) { console.error(...) } of checkSoilMoisture
checkCatch(task) == [task EXCEPT !.pc = "done"]

\* await sendSMS(...): client.messages.create is called at once, its
\* outcome is awaited
sendSMS(task, to, body) ==
  [task EXCEPT !.pc = "sending", !.sends = Append(@, MessagesCreate(to, body))]

\* lines 59-70: the number is looked up first, the threshold tested second
checkDecideMongo(task, number) ==
  IF NumberMissing(number) THEN [task EXCEPT !.pc = "done"]
  ELSE IF BelowThreshold(task.reading)
       THEN sendSMS(task, number, AlertMessage(task.reading))
       ELSE [task EXCEPT !.pc = "done"]

\* lines 202-211: the threshold is tested first, the number second
checkDecideMemory(task, number) ==
  IF BelowThreshold(task.reading)
  THEN IF NumberMissing(number) THEN [task EXCEPT !.pc = "done"]
       ELSE sendSMS(task, number, AlertMessage(task.reading))
  ELSE [task EXCEPT !.pc = "done"]

\* cron.schedule("0 9 * * *", () => { checkSoilMoisture(); })
CronTick ==
  /\ proc = "up"
  /\ chk.pc = "done"
  /\ chk' = [IdleCheck EXCEPT !.pc = "fetching"]
  /\ UNCHANGED <<variant, env, proc, dbConn, docs, farmerNumber, req, lastReq, lastUpsert>>

\* axios.get resolves, const { soilmoisture } = response.data
CheckFetched(v) ==
  /\ proc = "up"
  /\ chk.pc = "fetching"
  /\ LET got == [chk EXCEPT !.fetch = "ok", !.reading = v] IN
     chk' = IF variant = "mongo" THEN [got EXCEPT !.pc = "lookup"]
            ELSE checkDecideMemory([got EXCEPT !.latest = farmerNumber, !.lookup = "ok"],
                                   farmerNumber)
  /\ UNCHANGED <<variant, env, proc, dbConn, docs, farmerNumber, req, lastReq, lastUpsert>>

\* axios.get rejects, or response.data cannot be destructured
CheckFetchError ==
  /\ proc = "up"
  /\ chk.pc = "fetching"
  /\ chk' = checkCatch([chk EXCEPT !.fetch = "fail"])
  /\ UNCHANGED <<variant, env, proc, dbConn, docs, farmerNumber, req, lastReq, lastUpsert>>

\* await getFarmerNumber() resolves
CheckLookedUp ==
  /\ proc = "up"
  /\ chk.pc = "lookup"
  /\ dbConn = "connected"
  /\ chk' = checkDecideMongo([chk EXCEPT !.latest = getFarmerNumber(docs), !.lookup = "ok"],
                             getFarmerNumber(docs))
  /\ UNCHANGED <<variant, env, proc, dbConn, docs, farmerNumber, req, lastReq, lastUpsert>>

\* await getFarmerNumber() rejects (no connection, buffering timed out)
CheckLookupError ==
  /\ proc = "up"
  /\ chk.pc = "lookup"
  /\ chk' = checkCatch([chk EXCEPT !.latest = getFarmerNumber(docs), !.lookup = "fail"])
  /\ UNCHANGED <<variant, env, proc, dbConn, docs, farmerNumber, req, lastReq, lastUpsert>>

\* client.messages.create settles; sendSMS logs the sid or the error
CheckSmsSettled ==
  /\ proc = "up"
  /\ chk.pc = "sending"
  /\ chk' = [chk EXCEPT !.pc = "done"]
  /\ UNCHANGED <<variant, env, proc, dbConn, docs, farmerNumber, req, lastReq, lastUpsert>>

(* ---------------------------- HTTP handlers ----------------------------- *)

\* res.status(code).json(...) / res.json(...): the one response of a request
Respond(task, code) ==
  [task EXCEPT !.pc = "done", !.status = code, !.name = JsUndefined,
               !.match = 0, !.farmer = NoDoc]

\* an exception leaves the handler: no response is written
Throw(task) ==
  [task EXCEPT !.pc = "threw", !.name = JsUndefined, !.match = 0, !.farmer = NoDoc]

NewReq(kind) == [IdleReq EXCEPT !.kind = kind]

\* request i goes on, or ends as lastReq
Continue(i, task) ==
  IF task.pc \in {"done", "threw"}
  THEN req' = [req EXCEPT ![i] = IdleReq] /\ lastReq' = task
  ELSE req' = [req EXCEPT ![i] = task] /\ UNCHANGED lastReq

\* the name a write leaves in a document that held old: mongoose applies the
\* trim setter; an undefined name is dropped from the update (strip) or sent
\* as null, depending on the mongoose version
StoredName(old, name, strip) ==
  IF name.t = "undefined" THEN (IF strip THEN old ELSE JsNull) ELSE Trim(name)

\* lines 232-243: no normalisation, no validation
postMemory(task, phone) ==
  IF ~Truthy(phone) THEN Respond(task, 400)
  ELSE Respond([task EXCEPT !.phoneNumber = phone], 200)

\* lines 91-109 up to the server's part of findOneAndUpdate: a non-string
\* phoneNumber has no startsWith, and the TypeError is thrown outside the
\* try block; runValidators rejects a number that fails the schema before
\* anything is sent, and the catch block answers 500
postMongo(task, name, phone) ==
  IF ~Truthy(phone) THEN Respond(task, 400)
  ELSE IF phone.t # "string" THEN Throw(task)
  ELSE LET normal == JsString(Normalize(phone.s)) IN
       IF ~ValidPhone(normal) THEN Respond([task EXCEPT !.phoneNumber = normal], 500)
       ELSE [task EXCEPT !.pc = "upsert", !.name = name, !.phoneNumber = normal]

\* POST /api/farmer-number
PostRecv(i, name, phone) ==
  /\ proc = "up"
  /\ req[i].pc = "idle"
  /\ LET r == [NewReq("post") EXCEPT !.raw = phone]
         next == IF variant = "memory" THEN postMemory(r, phone)
                 ELSE postMongo(r, name, phone)
     IN /\ Continue(i, next)
        /\ IF variant = "memory" /\ next.status = 200
           THEN farmerNumber' = phone /\ lastUpsert' = phone
           ELSE UNCHANGED <<farmerNumber, lastUpsert>>
        \* nobody handles the rejection of the handler's promise: Node warns
        \* and goes on, or ends the process
        /\ IF next.pc = "threw" THEN proc' \in {"up", "exited"} ELSE UNCHANGED proc
  /\ UNCHANGED <<variant, env, dbConn, docs, chk>>

\* findOneAndUpdate rejects: no connection, or the command fails
PostUpsertError(i) ==
  /\ proc = "up"
  /\ req[i].kind = "post" /\ req[i].pc \in {"upsert", "write"}
  /\ Continue(i, Respond(req[i], 500))
  /\ UNCHANGED <<variant, env, proc, dbConn, docs, farmerNumber, chk, lastUpsert>>

\* findOneAndUpdate({}, ..., { upsert: true }) on the server, first half:
\* the empty filter selects the first document, or none
PostUpsertQueried(i) ==
  /\ proc = "up"
  /\ req[i].kind = "post" /\ req[i].pc = "upsert"
  /\ dbConn = "connected"
  /\ req' = [req EXCEPT ![i].pc = "write",
                        ![i].match = IF docs = <<>> THEN 0 ELSE 1]
  /\ UNCHANGED <<variant, env, proc, dbConn, docs, farmerNumber, chk, lastReq, lastUpsert>>

\* second half: the selected document is updated, or, none selected, a new
\* one is inserted; the unique index on phoneNumber rejects a duplicate.
\* Two upserts that both selected none both insert.
PostUpsertWritten(i) ==
  /\ proc = "up"
  /\ req[i].kind = "post" /\ req[i].pc = "write"
  /\ dbConn = "connected"
  /\ LET r == req[i] IN
     IF DuplicateKey(docs, r.match, r.phoneNumber)
     THEN /\ Continue(i, Respond(r, 500))
          /\ UNCHANGED <<docs, lastUpsert>>
     ELSE /\ \E strip \in BOOLEAN :
               docs' = IF r.match = 0
                       THEN Append(docs, [name |-> StoredName(JsUndefined, r.name, strip),
                                          phoneNumber |-> r.phoneNumber])
                       ELSE [docs EXCEPT ![r.match] =
                               [name |-> StoredName(@.name, r.name, strip),
                                phoneNumber |-> r.phoneNumber]]
          /\ lastUpsert' = r.phoneNumber
          /\ Continue(i, Respond(r, 200))
  /\ UNCHANGED <<variant, env, proc, dbConn, farmerNumber, chk>>

\* GET /api/farmer-number, up to the first await
GetRecv(i) ==
  /\ proc = "up"
  /\ req[i].pc = "idle"
  /\ Continue(i, IF variant = "memory"
                 THEN Respond(NewReq("get"), IF NumberMissing(farmerNumber) THEN 404 ELSE 200)
                 ELSE [NewReq("get") EXCEPT !.pc = "lookup"])
  /\ UNCHANGED <<variant, env, proc, dbConn, docs, farmerNumber, chk, lastUpsert>>

\* await Farmer.findOne() resolves in GET /api/farmer-number
GetLookedUp(i) ==
  /\ proc = "up"
  /\ req[i].kind = "get" /\ req[i].pc = "lookup"
  /\ dbConn = "connected"
  /\ Continue(i, Respond(req[i], IF FarmerMissing(findOne(docs)) THEN 404 ELSE 200))
  /\ UNCHANGED <<variant, env, proc, dbConn, docs, farmerNumber, chk, lastUpsert>>

\* await Farmer.findOne() rejects in GET /api/farmer-number
GetLookupError(i) ==
  /\ proc = "up"
  /\ req[i].kind = "get" /\ req[i].pc = "lookup"
  /\ Continue(i, Respond(req[i], 500))
  /\ UNCHANGED <<variant, env, proc, dbConn, docs, farmerNumber, chk, lastUpsert>>

\* what the store held when a handler looked
Seen(number) == IF Truthy(number) THEN "contact" ELSE "empty"

\* lines 255-264
triggerMemory(task, number) ==
  IF NumberMissing(number) THEN Respond(task, 404)
  ELSE sendSMS(task, number, ManualTest)

\* lines 134-137
triggerLookedUp(task, farmer) ==
  IF FarmerMissing(farmer) THEN Respond(task, 404)
  ELSE [task EXCEPT !.pc = "fetching", !.farmer = farmer]

\* lines 139-143; farmer.phoneNumber of a null farmer is a TypeError inside
\* the try block
triggerFetched(task, v) ==
  IF task.farmer = NoDoc THEN Respond(task, 500)
  ELSE sendSMS(task, task.farmer.phoneNumber, ManualMessage(v))

\* GET /api/trigger-sms, up to the first await
TriggerRecv(i) ==
  /\ proc = "up"
  /\ req[i].pc = "idle"
  /\ Continue(i, IF variant = "memory"
                 THEN triggerMemory([NewReq("trigger") EXCEPT !.seen = Seen(farmerNumber),
                                                              !.lookup = "ok"],
                                    farmerNumber)
                 ELSE [NewReq("trigger") EXCEPT !.pc = "lookup"])
  /\ UNCHANGED <<variant, env, proc, dbConn, docs, farmerNumber, chk, lastUpsert>>

\* await Farmer.findOne() resolves in GET /api/trigger-sms
TriggerLookedUp(i) ==
  /\ proc = "up"
  /\ req[i].kind = "trigger" /\ req[i].pc = "lookup"
  /\ dbConn = "connected"
  /\ Continue(i, triggerLookedUp([req[i] EXCEPT !.seen = Seen(findOne(docs).phoneNumber),
                                                !.lookup = "ok"],
                                 findOne(docs)))
  /\ UNCHANGED <<variant, env, proc, dbConn, docs, farmerNumber, chk, lastUpsert>>

\* await Farmer.findOne() rejects in GET /api/trigger-sms
TriggerLookupError(i) ==
  /\ proc = "up"
  /\ req[i].kind = "trigger" /\ req[i].pc = "lookup"
  /\ Continue(i, Respond([req[i] EXCEPT !.seen = Seen(findOne(docs).phoneNumber),
                                         !.lookup = "fail"], 500))
  /\ UNCHANGED <<variant, env, proc, dbConn, docs, farmerNumber, chk, lastUpsert>>

\* axios.get resolves in GET /api/trigger-sms
TriggerFetched(i, v) ==
  /\ proc = "up"
  /\ req[i].kind = "trigger" /\ req[i].pc = "fetching"
  /\ Continue(i, triggerFetched(req[i], v))
  /\ UNCHANGED <<variant, env, proc, dbConn, docs, farmerNumber, chk, lastUpsert>>

\* axios.get rejects in GET /api/trigger-sms
TriggerFetchError(i) ==
  /\ proc = "up"
  /\ req[i].kind = "trigger" /\ req[i].pc = "fetching"
  /\ Continue(i, Respond(req[i], 500))
  /\ UNCHANGED <<variant, env, proc, dbConn, docs, farmerNumber, chk, lastUpsert>>

\* client.messages.create settles; sendSMS swallows a failure, the handler
\* answers success either way
TriggerSmsSettled(i) ==
  /\ proc = "up"
  /\ req[i].kind = "trigger" /\ req[i].pc = "sending"
  /\ Continue(i, Respond(req[i], 200))
  /\ UNCHANGED <<variant, env, proc, dbConn, docs, farmerNumber, chk, lastUpsert>>

(* ---------------------------- specification ----------------------------- *)

StartupStep == Startup \/ DbConnected \/ DbConnectError

CheckStep ==
  \/ CronTick
  \/ \E v \in Readings : CheckFetched(v)
  \/ CheckFetchError
  \/ CheckLookedUp
  \/ CheckLookupError
  \/ CheckSmsSettled

UpsertStep(i) ==
  \/ PostUpsertError(i)
  \/ PostUpsertQueried(i)
  \/ PostUpsertWritten(i)

GetStep(i) == GetRecv(i) \/ GetLookedUp(i) \/ GetLookupError(i)

TriggerStep(i) ==
  \/ TriggerRecv(i)
  \/ TriggerLookedUp(i)
  \/ TriggerLookupError(i)
  \/ \E v \in Readings : TriggerFetched(i, v)
  \/ TriggerFetchError(i)
  \/ TriggerSmsSettled(i)

\* the whole service
Next ==
  \/ StartupStep
  \/ CheckStep
  \/ \E i \in Reqs, name \in NameInputs, phone \in PhoneInputs : PostRecv(i, name, phone)
  \/ \E i \in Reqs : UpsertStep(i)
  \/ \E i \in Reqs : GetStep(i)
  \/ \E i \in Reqs : TriggerStep(i)

Spec == Init /\ [][Next]_vars

\* The alert workflow beside the writers of the store: startup, the checks,
\* and POST requests that set a name and one of two well-formed numbers.  GET requests
\* write nothing a check reads and are left out.
AlertPhones == { JsString(TenA), JsString(CountryCode \o TenB) }
PostName == JsString(<<" ", "R">>)

NextAlert ==
  \/ StartupStep
  \/ CheckStep
  \/ \E i \in Reqs, phone \in AlertPhones : PostRecv(i, PostName, phone)
  \/ \E i \in Reqs : UpsertStep(i)

SpecAlert == Init /\ [][NextAlert]_vars

\* POST /api/farmer-number alone, with every phoneNumber and one name.

NextPost ==
  \/ StartupStep
  \/ \E i \in Reqs, phone \in PhoneInputs : PostRecv(i, PostName, phone)
  \/ \E i \in Reqs : UpsertStep(i)

SpecPost == Init /\ [][NextPost]_vars

\* GET /api/trigger-sms beside the writers of the store.
NextTrigger ==
  \/ StartupStep
  \/ \E i \in Reqs, phone \in AlertPhones : PostRecv(i, PostName, phone)
  \/ \E i \in Reqs : UpsertStep(i)
  \/ \E i \in Reqs : TriggerStep(i)

SpecTrigger == Init /\ [][NextTrigger]_vars

\* The HTTP surface: startup and the three handlers with every input.  A
\* check writes nothing a handler reads; the one started at startup stays
\* as it is.
NextHttp ==
  \/ StartupStep
  \/ \E i \in Reqs, name \in NameInputs, phone \in PhoneInputs : PostRecv(i, name, phone)
  \/ \E i \in Reqs : UpsertStep(i)
  \/ \E i \in Reqs : GetStep(i)
  \/ \E i \in Reqs : TriggerStep(i)

SpecHttp == Init /\ [][NextHttp]_vars

(* ------------------------- the alert workflow --------------------------- *)

\* the invocation in chk has fetched a number below the threshold
ReadBelow ==
  chk.fetch = "ok" /\ chk.reading.t = "number" /\ chk.reading.n < MOISTURE_THRESHOLD

\* the invocation in chk has fetched a number at or above the threshold
ReadAtOrAbove ==
  chk.fetch = "ok" /\ chk.reading.t = "number" /\ chk.reading.n >= MOISTURE_THRESHOLD

\* exactly one message, to the stored number, with the reading in its text
OneAlert ==
  /\ Len(chk.sends) = 1
  /\ chk.sends[1].to = chk.latest
  /\ Contains(chk.sends[1].body, Decimal(chk.reading.n))

\* C1 as stated: an invocation that has ended, whose fetch gave a number
\* r < 30 while a contact was stored, has called the Notifier exactly once,
\* to the stored contact's number, with r in the message text.
C1_AsStated ==
  (chk.pc = "done" /\ ReadBelow /\ Truthy(chk.latest)) => OneAlert

\* C1 amended: the same, for an invocation whose lookup of the contact did
\* not fail; when the lookup fails the invocation ends with no message.
C1_AlertOnceWhenLookupSucceeds ==
  /\ (chk.pc = "done" /\ ReadBelow /\ Truthy(chk.latest) /\ chk.lookup = "ok") => OneAlert
  /\ (chk.pc = "done" /\ chk.lookup = "fail") => chk.sends = <<>>

C1_Witness ==
  /\ variant = "mongo" /\ chk.pc = "done" /\ ReadBelow /\ chk.lookup = "ok"
  /\ Truthy(chk.latest) /\ Len(docs) = 2 /\ OneAlert

\* C2: an invocation whose fetch gave a number r >= 30 (r = 30 included)
\* never calls the Notifier, with or without a stored contact.
C2_NoAlertAtOrAboveThreshold == ReadAtOrAbove => chk.sends = <<>>

C2_Witness ==
  /\ chk.pc = "done" /\ ReadAtOrAbove /\ chk.reading.n = MOISTURE_THRESHOLD
  /\ Truthy(chk.latest) /\ chk.sends = <<>>

\* C3: an invocation that finds no contact stored, whatever the reading,
\* has ended without calling the Notifier and without raising.
C3_NoContactNoAlert ==
  (chk.lookup # "none" /\ ~Truthy(chk.latest)) =>
    (chk.pc = "done" /\ chk.sends = <<>> /\ ~chk.raised)

C3_Witness ==
  /\ chk.pc = "done" /\ ReadBelow /\ chk.lookup = "ok" /\ chk.latest = JsNull
  /\ chk.sends = <<>>

\* C4: an invocation whose fetch failed has ended with no lookup, no call of
\* the Notifier and no error raised, and the next scheduled invocation can
\* start.
C4_FetchFailureAbsorbed ==
  chk.fetch = "fail" =>
    /\ chk.pc = "done" /\ chk.lookup = "none" /\ chk.sends = <<>> /\ ~chk.raised
    /\ proc = "up"
    /\ ENABLED CronTick

C4_Witness == chk.fetch = "fail" /\ chk.pc = "done" /\ docs # <<>>

(* --------------------------- the HTTP surface --------------------------- *)

\* this step ends a request: lastReq' is that request
Answered ==
  \/ lastReq' # lastReq
  \/ \E i \in Reqs : req[i].pc # "idle" /\ req'[i].pc = "idle"

\* optional "+91", then exactly ten digits
TenDigitNumber(str) == Len(str) = PhoneDigits /\ AllDigits(str)

\* a phoneNumber that is missing, or a string that after the +91 step is not
\* optional "+91" followed by ten digits
Malformed(v) ==
  \/ ~Truthy(v)
  \/ /\ v.t = "string"
     /\ ~TenDigitNumber(Normalize(v.s))
     /\ ~(StartsWith(Normalize(v.s), CountryCode)
          /\ TenDigitNumber(SubSeq(Normalize(v.s), Len(CountryCode) + 1, Len(Normalize(v.s)))))

\* C5 as stated: once an upsert has completed, the store holds exactly one
\* contact, with the number of the upsert that completed last.
C5_AsStated ==
  (variant = "mongo" /\ lastUpsert # JsNull) =>
    (Len(docs) = 1 /\ docs[1].phoneNumber = lastUpsert)

\* C6: a POST /api/farmer-number whose phoneNumber is missing, or fails the
\* pattern after the +91 step, is answered with an error status, and the
\* step that answers it leaves the stored contacts as they were.
C6_MalformedRejected ==
  [][(variant = "mongo" /\ Answered /\ lastReq'.kind = "post" /\ Malformed(lastReq'.raw))
       => (lastReq'.pc = "done" /\ lastReq'.status >= 400 /\ docs' = docs)]_vars

C6_Witness ==
  /\ variant = "mongo" /\ docs # <<>>
  /\ lastReq.kind = "post" /\ lastReq.raw.t = "string" /\ Malformed(lastReq.raw)
  /\ StartsWith(lastReq.raw.s, CountryCode)
  /\ lastReq.status = 500

\* C7 as stated, for the upserts that are answered with success: the step
\* that answers an upsert of a ten-digit p, or of "+91" and ten digits, leaves
\* "+91" p as the number getFarmerNumber returns.
C7_AsStated ==
  [][(variant = "mongo" /\ Answered /\ lastReq'.kind = "post" /\ lastReq'.status = 200
        /\ lastReq'.raw.t = "string")
       => getFarmerNumber(docs') =
            JsString(IF TenDigitNumber(lastReq'.raw.s)
                     THEN CountryCode \o lastReq'.raw.s ELSE lastReq'.raw.s)]_vars

\* C8 as stated: a GET /api/trigger-sms handled while no contact is stored
\* is answered 404 and calls the Notifier not once.
C8_AsStated ==
  (lastReq.kind = "trigger" /\ lastReq.seen = "empty") =>
    (lastReq.status = 404 /\ lastReq.sends = <<>>)

\* C8 amended: a GET /api/trigger-sms handled while no contact is stored
\* calls the Notifier not once and changes no stored contact; it is answered
\* 404 when the lookup of the contact succeeds and 500 when the lookup fails.
C8_TriggerWithoutContact ==
  [][(Answered /\ lastReq'.kind = "trigger" /\ lastReq'.seen = "empty")
       => /\ lastReq'.pc = "done" /\ lastReq'.sends = <<>>
          /\ docs' = docs /\ farmerNumber' = farmerNumber
          /\ lastReq'.status = IF lastReq'.lookup = "fail" THEN 500 ELSE 404]_vars

C8_Witness ==
  /\ variant = "mongo" /\ dbConn = "connected" /\ docs = <<>>
  /\ lastReq.kind = "trigger" /\ lastReq.seen = "empty" /\ lastReq.lookup = "ok"
  /\ lastReq.status = 404 /\ lastReq.sends = <<>>

\* C9 as stated: every request ends with one response, no error leaves a
\* handler, and the process goes on serving.
C9_AsStated ==
  /\ lastReq.pc # "idle" => (lastReq.pc = "done" /\ lastReq.status >= 200)
  /\ proc # "loading" /\ env.twilio => proc = "up"

\* C10 as stated: with a credential of the provider or the connection string
\* missing, the process never listens, runs no check and serves no request.
C10_AsStated ==
  (~env.twilio \/ ~env.mongoUri) =>
    (proc # "up" /\ chk.pc = "idle" /\ lastReq.pc = "idle")

====
